---- MODULE Spec2Model ----
(***************************************************************************)
(* The block ingestion / rollback engine of the UTXO indexer               *)
(* (src/src/services/outputService.ts) over the four tables created by     *)
(* src/src/database/migrations.ts.                                         *)
(*                                                                         *)
(* A database value `db` is a record of the four tables:                   *)
(*   blocks        set of [id, height]                                     *)
(*   transactions  set of [id, block_id, block_height]                     *)
(*   outputs       set of [tx_id, output_index, address, value, spent,     *)
(*                         spent_by_tx]                                    *)
(*   current_height  the single row of table state                         *)
(* processBlock and rollbackToHeight open a transaction on a dedicated     *)
(* client (`w`, the working copy) but read the height and the input values *)
(* through the pool, i.e. on another connection, which sees the committed  *)
(* database (`c`) only.                                                    *)
(***************************************************************************)
EXTENDS Integers, Sequences, FiniteSets, TLC

VARIABLES blocks, transactions, outputs, current_height, last, snap, chain, undone,
          reply, procs, base, commits

vars == <<blocks, transactions, outputs, current_height, last, snap, chain, undone,
          reply, procs, base, commits>>

\* The variables of the calls run one at a time, and of the concurrent calls.
seq == <<last, snap, chain, undone, reply>>

conc == <<procs, base, commits>>

\* ------------------------------------------------------------------ bounds

\* Blocks are submitted for heights 1..MaxHeight.
MaxHeight == 3

\* `currentHeight - targetHeight > 2000` in rollbackToHeight.
RollbackWindow == 2000

\* ------------------------------------------------------------------ inputs

Addresses == {"x", "y"}

TxIds == {"a", "b", "c"}

\* SQL NULL in column spent_by_tx.
NULL == "NULL"

In(t, i) == [txId |-> t, index |-> i]

Out(a, v) == [address |-> a, value |-> v]

Tx(id, ins, outs) == [id |-> id, inputs |-> ins, outputs |-> outs]

\* The transactions requests are built from.
Txs ==
    { Tx("a", <<>>, <<Out("x", 2)>>),
      Tx("a", <<>>, <<Out("x", 1), Out("y", 1)>>),
      Tx("b", <<>>, <<Out("y", 1)>>),
      Tx("b", <<In("a", 0)>>, <<Out("y", 2)>>),
      Tx("b", <<In("a", 0)>>, <<Out("y", 1), Out("x", 1)>>),
      Tx("b", <<In("a", 0), In("a", 1)>>, <<Out("y", 2)>>),
      Tx("b", <<In("a", 0), In("a", 0)>>, <<Out("y", 2)>>),
      Tx("c", <<In("a", 0)>>, <<Out("x", 2)>>),
      Tx("c", <<In("b", 0)>>, <<Out("x", 2)>>),
      Tx("c", <<In("b", 0)>>, <<Out("x", 1)>>),
      Tx("c", <<In("b", 1)>>, <<Out("y", 1)>>),
      Tx("c", <<>>, <<Out("y", 2)>>),
      Tx("c", <<>>, <<Out("y", -1)>>) }

\* The transaction lists of a request: none, one or two transactions.
TxLists == {<<>>} \cup {<<t>> : t \in Txs} \cup {<<t, u>> : t, u \in Txs}

\* ------------------------------------------------------------------ hash.ts

RECURSIVE Join(_)
\* txIds.join('')
Join(ids) == IF ids = <<>> THEN "" ELSE Head(ids) \o Join(Tail(ids))

\* createHash('sha256').update(data).digest('hex'): a digest is modelled by
\* the data it was computed over (no two data share a digest).
Sha256(data) == "sha256:" \o data

\* calculateBlockHash over the height alone.
calculateBlockHashOfHeight(height, txIds) == Sha256(ToString(height))

calculateBlockHash(height, txIds) == Sha256(ToString(height) \o Join(txIds))

TxIdsOf(block) == [i \in 1..Len(block.transactions) |-> block.transactions[i].id]

Reverse(s) == [i \in 1..Len(s) |-> s[Len(s) + 1 - i]]

\* The ids a request may carry for (height, txs): the digest of the block,
\* the digest over the ids in reverse order, the digest for the next height.
BlockIdsFor(height, txs) ==
    LET ids == [i \in 1..Len(txs) |-> txs[i].id]
    IN  { calculateBlockHash(height, ids),
          calculateBlockHash(height, Reverse(ids)),
          calculateBlockHash(height + 1, ids) }

\* ------------------------------------------------------------------ store

\* The database after createTables: empty tables, state row (1, 0).
createTables ==
    [blocks |-> {}, transactions |-> {}, outputs |-> {}, current_height |-> 0]

\* SELECT current_height FROM state WHERE id = 1; `rows[0]?.current_height || 0`.
getCurrentHeight(c) == IF c.current_height = 0 THEN 0 ELSE c.current_height

\* SELECT address, value FROM outputs WHERE tx_id = $1 AND output_index = $2:
\* the matching rows (none: the function returns null).
getOutputValue(c, txId, index) ==
    {o \in c.outputs : o.tx_id = txId /\ o.output_index = index}

RECURSIVE SumOfRows(_)
\* SUM(value) over a set of output rows.
SumOfRows(rows) ==
    IF rows = {} THEN 0
    ELSE LET o == CHOOSE r \in rows : TRUE
         IN  o.value + SumOfRows(rows \ {o})

\* getBalance without `AND spent = FALSE`.
getBalanceAll(c, address) ==
    LET rows == {o \in c.outputs : o.address = address}
    IN  IF rows = {} THEN 0 ELSE SumOfRows(rows)

\* SELECT COALESCE(SUM(value), 0) FROM outputs WHERE address = $1 AND spent = FALSE
getBalance(c, address) ==
    LET rows == {o \in c.outputs : o.address = address /\ o.spent = FALSE}
    IN  IF rows = {} THEN 0 ELSE SumOfRows(rows)

\* ------------------------------------------------------------------ validation

RECURSIVE calculateInputSumLenient(_, _, _)
\* calculateInputSum without the `if (!output) throw`: a reference with no row
\* counts 0.
calculateInputSumLenient(c, inputs, k) ==
    IF k > Len(inputs) THEN [found |-> TRUE, sum |-> 0]
    ELSE LET rows == getOutputValue(c, inputs[k].txId, inputs[k].index)
             rest == calculateInputSumLenient(c, inputs, k + 1)
         IN  IF rows = {} THEN rest
             ELSE [found |-> rest.found, sum |-> (CHOOSE r \in rows : TRUE).value + rest.sum]

RECURSIVE calculateInputSum(_, _, _)
\* The loop of calculateInputSum from input k on: the sum of the referenced
\* values, or found = FALSE at the first reference with no row ("Output not
\* found").
calculateInputSum(c, inputs, k) ==
    IF k > Len(inputs) THEN [found |-> TRUE, sum |-> 0]
    ELSE LET rows == getOutputValue(c, inputs[k].txId, inputs[k].index)
         IN  IF rows = {} THEN [found |-> FALSE, sum |-> 0]
             ELSE LET rest == calculateInputSum(c, inputs, k + 1)
                      row  == CHOOSE r \in rows : TRUE
                  IN  [found |-> rest.found, sum |-> row.value + rest.sum]

RECURSIVE OutputSum(_, _)
\* tx.outputs.reduce((sum, out) => sum + out.value, 0)
OutputSum(outs, k) ==
    IF k > Len(outs) THEN 0 ELSE outs[k].value + OutputSum(outs, k + 1)

\* validateTransaction without `hasInputs &&`: the sums are compared for every
\* transaction.
validateTransactionStrict(c, tx) ==
    LET inputs    == calculateInputSum(c, tx.inputs, 1)
        outputSum == OutputSum(tx.outputs, 1)
    IN  IF ~inputs.found THEN "OutputNotFound"
        ELSE IF inputs.sum # outputSum THEN "ValueMismatch"
        ELSE "ok"

\* validateTransaction without the comparison of the sums.
validateTransactionNoSum(c, tx) ==
    LET hasInputs == Len(tx.inputs) > 0
        inputs    == IF hasInputs THEN calculateInputSum(c, tx.inputs, 1)
                     ELSE [found |-> TRUE, sum |-> 0]
    IN  IF ~inputs.found THEN "OutputNotFound" ELSE "ok"

\* validateTransaction, reading through the pool (the committed database c).
validateTransaction(c, tx) ==
    LET hasInputs == Len(tx.inputs) > 0
        inputs    == IF hasInputs THEN calculateInputSum(c, tx.inputs, 1)
                     ELSE [found |-> TRUE, sum |-> 0]
        outputSum == OutputSum(tx.outputs, 1)
    IN  IF ~inputs.found THEN "OutputNotFound"
        ELSE IF hasInputs /\ inputs.sum # outputSum THEN "ValueMismatch"
        ELSE "ok"

\* ------------------------------------------------------------------ processBlock

\* HeightOk with the test `block.height <= currentHeight`: heights may be skipped.
HeightOkAbove(c, block) == block.height > getCurrentHeight(c)

\* `block.height !== currentHeight + 1` does not throw.
HeightOk(c, block) == block.height = getCurrentHeight(c) + 1

\* HashOk with the transaction ids taken in either order.
HashOkUnordered(block) ==
    \/ block.id = calculateBlockHash(block.height, TxIdsOf(block))
    \/ block.id = calculateBlockHash(block.height, Reverse(TxIdsOf(block)))

\* `block.id !== expectedHash` does not throw.
HashOk(block) == block.id = calculateBlockHash(block.height, TxIdsOf(block))

\* InsertBlock on a table blocks without UNIQUE on height.
InsertBlockNoUnique(w, block) ==
    IF \E b \in w.blocks : b.id = block.id
    THEN [w |-> w, err |-> "StoreFault"]
    ELSE [w |-> [w EXCEPT !.blocks = @ \cup {[id |-> block.id, height |-> block.height]}],
          err |-> "ok"]

\* INSERT INTO blocks: id is the primary key, height is UNIQUE.
InsertBlock(w, block) ==
    IF \E b \in w.blocks : b.id = block.id \/ b.height = block.height
    THEN [w |-> w, err |-> "StoreFault"]
    ELSE [w |-> [w EXCEPT !.blocks = @ \cup {[id |-> block.id, height |-> block.height]}],
          err |-> "ok"]

\* INSERT INTO transactions: id is the primary key, block_id references blocks(id).
InsertTransaction(w, tx, block) ==
    IF \/ \E t \in w.transactions : t.id = tx.id
       \/ ~\E b \in w.blocks : b.id = block.id
    THEN [w |-> w, err |-> "StoreFault"]
    ELSE [w |-> [w EXCEPT !.transactions =
                     @ \cup {[id |-> tx.id, block_id |-> block.id,
                              block_height |-> block.height]}],
          err |-> "ok"]

\* SpendOutput without `AND spent = FALSE`: a spent output is spent again.
SpendOutputAgain(w, spender, input) ==
    LET hit(o) == o.tx_id = input.txId /\ o.output_index = input.index
    IN  IF ~\E o \in w.outputs : hit(o)
        THEN [w |-> w, err |-> "DoubleSpend"]
        ELSE [w |-> [w EXCEPT !.outputs =
                         {IF hit(o) THEN [o EXCEPT !.spent = TRUE, !.spent_by_tx = spender]
                                    ELSE o : o \in @}],
              err |-> "ok"]

\* SpendOutput without `if (result.rowCount === 0) throw`.
SpendOutputUnchecked(w, spender, input) ==
    LET hit(o) == o.tx_id = input.txId /\ o.output_index = input.index /\ o.spent = FALSE
    IN  [w |-> [w EXCEPT !.outputs =
                    {IF hit(o) THEN [o EXCEPT !.spent = TRUE, !.spent_by_tx = spender]
                               ELSE o : o \in @}],
         err |-> "ok"]

\* UPDATE outputs SET spent = TRUE, spent_by_tx = $1 WHERE tx_id = $2 AND
\* output_index = $3 AND spent = FALSE; rowCount = 0 throws.
SpendOutput(w, spender, input) ==
    LET hit(o) == o.tx_id = input.txId /\ o.output_index = input.index /\ o.spent = FALSE
    IN  IF ~\E o \in w.outputs : hit(o)
        THEN [w |-> w, err |-> "DoubleSpend"]
        ELSE [w |-> [w EXCEPT !.outputs =
                         {IF hit(o) THEN [o EXCEPT !.spent = TRUE, !.spent_by_tx = spender]
                                    ELSE o : o \in @}],
              err |-> "ok"]

RECURSIVE SpendInputsIgnore(_, _, _)
\* SpendInputs going on to the next input when an UPDATE matched no row.
SpendInputsIgnore(w, tx, k) ==
    IF k > Len(tx.inputs) THEN [w |-> w, err |-> "ok"]
    ELSE SpendInputsIgnore(SpendOutput(w, tx.id, tx.inputs[k]).w, tx, k + 1)

RECURSIVE SpendInputs(_, _, _)
\* for (const input of tx.inputs), from input k on.
SpendInputs(w, tx, k) ==
    IF k > Len(tx.inputs) THEN [w |-> w, err |-> "ok"]
    ELSE LET r == SpendOutput(w, tx.id, tx.inputs[k])
         IN  IF r.err # "ok" THEN r ELSE SpendInputs(r.w, tx, k + 1)

\* INSERT INTO outputs (..., spent) VALUES (..., FALSE): (tx_id, output_index)
\* is the primary key; spent_by_tx defaults to NULL.
InsertOutput(w, tx, i) ==
    IF \E o \in w.outputs : o.tx_id = tx.id /\ o.output_index = i - 1
    THEN [w |-> w, err |-> "StoreFault"]
    ELSE [w |-> [w EXCEPT !.outputs =
                     @ \cup {[tx_id |-> tx.id, output_index |-> i - 1,
                              address |-> tx.outputs[i].address,
                              value |-> tx.outputs[i].value,
                              spent |-> FALSE, spent_by_tx |-> NULL]}],
          err |-> "ok"]

RECURSIVE InsertOutputs(_, _, _)
\* for (let i = 0; i < tx.outputs.length; i++), from the k-th output on
\* (sequences are 1-based, output_index is 0-based).
InsertOutputs(w, tx, k) ==
    IF k > Len(tx.outputs) THEN [w |-> w, err |-> "ok"]
    ELSE LET r == InsertOutput(w, tx, k)
         IN  IF r.err # "ok" THEN r ELSE InsertOutputs(r.w, tx, k + 1)

\* ApplyTransaction marking the inputs before it validates.
ApplyTransactionSpendFirst(c, w, block, tx) ==
    LET s == SpendInputs(w, tx, 1)
    IN  IF s.err # "ok" THEN s
        ELSE LET v == validateTransaction(c, tx)
             IN  IF v # "ok" THEN [w |-> w, err |-> v]
                 ELSE LET t == InsertTransaction(s.w, tx, block)
                      IN  IF t.err # "ok" THEN t ELSE InsertOutputs(t.w, tx, 1)

\* One iteration of `for (const tx of block.transactions)`.
ApplyTransaction(c, w, block, tx) ==
    LET v == validateTransaction(c, tx)
    IN  IF v # "ok" THEN [w |-> w, err |-> v]
        ELSE LET t == InsertTransaction(w, tx, block)
             IN  IF t.err # "ok" THEN t
                 ELSE LET s == SpendInputs(t.w, tx, 1)
                      IN  IF s.err # "ok" THEN s ELSE InsertOutputs(s.w, tx, 1)

RECURSIVE ApplyTransactions(_, _, _, _)
\* The loop over block.transactions from transaction k on; `at` is the
\* position of the transaction that threw (0: none).
ApplyTransactions(c, w, block, k) ==
    IF k > Len(block.transactions) THEN [w |-> w, err |-> "ok", at |-> 0]
    ELSE LET r == ApplyTransaction(c, w, block, block.transactions[k])
         IN  IF r.err # "ok" THEN [w |-> r.w, err |-> r.err, at |-> k]
             ELSE ApplyTransactions(c, r.w, block, k + 1)

\* UPDATE state SET current_height = $1 WHERE id = 1
SetHeight(w, height) == [w EXCEPT !.current_height = height]

\* Abort without the ROLLBACK: what the call wrote stays.
AbortKeep(c, w) == w

\* catch: ROLLBACK discards the working copy; the committed database stays.
Abort(c, w) == c

\* processBlock(pool, block) run alone on committed database c: the database
\* it leaves, the error it throws ("ok": none) and the failing transaction.
processBlock(c, block) ==
    IF ~HeightOk(c, block) THEN [db |-> Abort(c, c), err |-> "InvalidHeight", at |-> 0]
    ELSE IF ~HashOk(block) THEN [db |-> Abort(c, c), err |-> "InvalidHash", at |-> 0]
    ELSE LET b == InsertBlock(c, block)
         IN  IF b.err # "ok" THEN [db |-> Abort(c, b.w), err |-> b.err, at |-> 0]
             ELSE LET r == ApplyTransactions(c, b.w, block, 1)
                  IN  IF r.err # "ok"
                      THEN [db |-> Abort(c, r.w), err |-> r.err, at |-> r.at]
                      ELSE [db |-> SetHeight(r.w, block.height), err |-> "ok", at |-> 0]

\* ------------------------------------------------------------------ rollbackToHeight

\* SELECT id, height FROM blocks WHERE height > $1: the rows (ORDER BY height
\* DESC is the order RemoveBlocks visits them in).
SelectBlocksAbove(w, targetHeight) == {b \in w.blocks : b.height > targetHeight}

\* The greatest height among rows.
TopHeight(rows) ==
    LET hs == {b.height : b \in rows}
    IN  CHOOSE h \in hs : \A g \in hs : g <= h

\* SELECT id FROM transactions WHERE block_height = $1: the ids in one of the
\* orders the store may return them (no ORDER BY); `rev` picks the order.
SelectTxIds(w, height, rev) ==
    LET ids == {t.id : t \in {x \in w.transactions : x.block_height = height}}
        n   == Cardinality(ids)
        f   == CHOOSE g \in [1..n -> ids] : \A i, j \in 1..n : i # j => g[i] # g[j]
    IN  IF rev THEN [i \in 1..n |-> f[n + 1 - i]] ELSE f

\* UnspendBy left out: the outputs a removed transaction spent stay spent.
UnspendByNone(w, txId) == w

\* UnspendBy resetting the flag only: the spending reference stays.
UnspendByKeepRef(w, txId) ==
    [w EXCEPT !.outputs =
        {IF o.spent_by_tx = txId THEN [o EXCEPT !.spent = FALSE] ELSE o : o \in @}]

\* UPDATE outputs SET spent = FALSE, spent_by_tx = NULL WHERE spent_by_tx = $1
UnspendBy(w, txId) ==
    [w EXCEPT !.outputs =
        {IF o.spent_by_tx = txId THEN [o EXCEPT !.spent = FALSE, !.spent_by_tx = NULL]
                                 ELSE o : o \in @}]

\* DeleteOutputsOf deleting nothing: the outputs of a removed transaction stay.
DeleteOutputsOfNone(w, txId) == w

\* DELETE FROM outputs WHERE tx_id = $1
DeleteOutputsOf(w, txId) ==
    [w EXCEPT !.outputs = {o \in @ : o.tx_id # txId}]

RECURSIVE RemoveTxs(_, _, _)
\* for (const tx of txs.rows), from row k on.
RemoveTxs(w, ids, k) ==
    IF k > Len(ids) THEN w
    ELSE RemoveTxs(DeleteOutputsOf(UnspendBy(w, ids[k]), ids[k]), ids, k + 1)

\* DeleteTransactionsAt with `block_height <= $1`.
DeleteTransactionsUpTo(w, height) ==
    [w EXCEPT !.transactions = {t \in @ : t.block_height > height}]

\* DELETE FROM transactions WHERE block_height = $1
DeleteTransactionsAt(w, height) ==
    [w EXCEPT !.transactions = {t \in @ : t.block_height # height}]

\* DeleteBlock matching no block row.
DeleteBlockNone(w, id) == w

\* DELETE FROM blocks WHERE id = $1 (transactions.block_id: ON DELETE CASCADE)
DeleteBlock(w, id) ==
    [w EXCEPT !.blocks = {b \in @ : b.id # id},
              !.transactions = {t \in @ : t.block_id # id}]

\* One iteration of `for (const block of blocksToRemove.rows)`.
RemoveBlock(w, block, rev) ==
    DeleteBlock(
        DeleteTransactionsAt(
            RemoveTxs(w, SelectTxIds(w, block.height, rev), 1),
            block.height),
        block.id)

RECURSIVE RemoveBlocks(_, _, _, _, _)
\* for (const block of blocksToRemove.rows): the rows with a height in lo..hi,
\* by descending height. The range is halved so that a long chain does not
\* nest one call per block, and the test on `upper` makes TLC finish the upper
\* half before it starts the lower one (the loop never writes table state).
RemoveBlocks(w, rows, lo, hi, rev) ==
    IF lo > hi THEN w
    ELSE IF lo = hi
    THEN LET here == {b \in rows : b.height = lo}
         IN  IF here = {} THEN w ELSE RemoveBlock(w, CHOOSE b \in here : TRUE, rev)
    ELSE LET mid   == (lo + hi) \div 2
             upper == RemoveBlocks(w, rows, mid + 1, hi, rev)
         IN  IF upper.current_height = w.current_height
             THEN RemoveBlocks(upper, rows, lo, mid, rev)
             ELSE upper

\* NotFuture with >= for >: the current height is refused.
NotFutureStrict(c, targetHeight) == ~(targetHeight >= getCurrentHeight(c))

\* NotFuture off by one: the height after the current one passes.
NotFutureLoose(c, targetHeight) == ~(targetHeight > getCurrentHeight(c) + 1)

\* `targetHeight > currentHeight` does not throw.
NotFuture(c, targetHeight) == ~(targetHeight > getCurrentHeight(c))

\* WithinWindow with >= for >: a depth of exactly the window is refused.
WithinWindowStrict(c, targetHeight) ==
    ~(getCurrentHeight(c) - targetHeight >= RollbackWindow)

\* `currentHeight - targetHeight > 2000` does not throw.
WithinWindow(c, targetHeight) == ~(getCurrentHeight(c) - targetHeight > RollbackWindow)

\* rollbackToHeight(pool, targetHeight) run alone on committed database c.
rollbackToHeight(c, targetHeight, rev) ==
    IF ~NotFuture(c, targetHeight) THEN [db |-> Abort(c, c), err |-> "FutureHeight"]
    ELSE IF ~WithinWindow(c, targetHeight)
    THEN [db |-> Abort(c, c), err |-> "RollbackWindowExceeded"]
    ELSE LET rows == SelectBlocksAbove(c, targetHeight)
             w    == IF rows = {} THEN c
                     ELSE RemoveBlocks(c, rows, targetHeight + 1, TopHeight(rows), rev)
         IN  [db |-> SetHeight(w, targetHeight), err |-> "ok"]

\* ------------------------------------------------------------------ state machine

\* The committed database.
Db == [blocks |-> blocks, transactions |-> transactions, outputs |-> outputs,
       current_height |-> current_height]

NoBlock == [id |-> "", height |-> 0, transactions |-> <<>>]

Idle == [op |-> "none", block |-> NoBlock, target |-> 0, rev |-> FALSE,
         err |-> "ok", at |-> 0, pre |-> createTables]

\* The request handlers that may run at the same time, each on its own client.
Procs == {"p", "q"}

\* The rows a client's open transaction has inserted, or deleted or replaced.
NoRows == [blocks |-> {}, transactions |-> {}, outputs |-> {}]

\* A handler: where it is in its call (pc), the call (op, block, target, rev,
\* address), its locals (h: currentHeight, rows: blocksToRemove.rows, txs:
\* txs.rows, k, j: loop positions, sum: the input sum so far), what its open
\* transaction has written (added, removed, hset/hval: table state) and how
\* the call ended (err, at, result: the balance returned, hAtCommit: the
\* committed height when it committed).
IdleProc ==
    [pc |-> "idle", op |-> "none", block |-> NoBlock, target |-> 0, rev |-> FALSE,
     address |-> "", h |-> 0, rows |-> <<>>, txs |-> <<>>, k |-> 0, j |-> 0, sum |-> 0,
     added |-> NoRows, removed |-> NoRows, hset |-> FALSE, hval |-> 0,
     err |-> "ok", at |-> 0, result |-> 0, hAtCommit |-> 0]

\* `reply` is the HTTP reply of POST /rollback being sent (NoReply: none): the
\* query parameter it answers, whether rollbackToHeight was called, and the
\* status and body.
NoReply == [param |-> [present |-> FALSE, text |-> <<>>], invoked |-> FALSE, status |-> 0, success |-> FALSE,
            height |-> 0, error |-> ""]

\* `last` logs the call a route has run and not yet answered: its request,
\* the error the engine threw ("ok": none), the failing transaction's position
\* and the database before the call; Idle when no call is being answered.
\* `snap[h]` is the database as it was right after the block now at height h
\* was ingested (snap[0]: after createTables), `chain[h]` the request body of
\* that block, and `undone` the blocks (by height) that the call being
\* answered has removed.
Init ==
    /\ blocks = createTables.blocks
    /\ transactions = createTables.transactions
    /\ outputs = createTables.outputs
    /\ current_height = createTables.current_height
    /\ last = Idle
    /\ snap = [h \in {0} |-> createTables]
    /\ chain = <<>>
    /\ undone = <<>>
    /\ reply = NoReply
    /\ procs = [p \in Procs |-> IdleProc]
    /\ base = createTables
    /\ commits = {createTables}

Commit(db) ==
    /\ blocks' = db.blocks
    /\ transactions' = db.transactions
    /\ outputs' = db.outputs
    /\ current_height' = db.current_height

\* POST /blocks: processBlock on a request body.
Ingest ==
    /\ last = Idle
    /\ UNCHANGED conc
    /\ \E height \in 1..MaxHeight, txs \in TxLists :
        \E id \in BlockIdsFor(height, txs) :
          LET block == [id |-> id, height |-> height, transactions |-> txs]
              r     == processBlock(Db, block)
          IN  /\ Commit(r.db)
              /\ last' = [op |-> "ingest", block |-> block, target |-> 0, rev |-> FALSE,
                          err |-> r.err, at |-> r.at, pre |-> Db]
              /\ snap' = IF r.err = "ok"
                         THEN [h \in {x \in DOMAIN snap : x < height} \cup {height} |->
                                  IF h = height THEN r.db ELSE snap[h]]
                         ELSE snap
              /\ chain' = IF r.err = "ok"
                          THEN [h \in {x \in DOMAIN chain : x < height} \cup {height} |->
                                   IF h = height THEN block ELSE chain[h]]
                          ELSE chain
              /\ undone' = <<>>
              /\ UNCHANGED reply

\* POST /rollback?height=T with T >= 0: rollbackToHeight.
Rollback ==
    /\ last = Idle
    /\ UNCHANGED conc
    /\ \E targetHeight \in 0..(MaxHeight + 1), rev \in BOOLEAN :
        LET r == rollbackToHeight(Db, targetHeight, rev)
        IN  /\ Commit(r.db)
            /\ last' = [op |-> "rollback", block |-> NoBlock, target |-> targetHeight,
                        rev |-> rev, err |-> r.err, at |-> 0, pre |-> Db]
            /\ snap' = IF r.err = "ok"
                       THEN [h \in {x \in DOMAIN snap : x <= targetHeight} |-> snap[h]]
                       ELSE snap
            /\ chain' = IF r.err = "ok"
                        THEN [h \in {x \in DOMAIN chain : x <= targetHeight} |-> chain[h]]
                        ELSE chain
            /\ undone' = IF r.err = "ok"
                         THEN [h \in {x \in DOMAIN chain : x > targetHeight} |-> chain[h]]
                         ELSE <<>>
            /\ UNCHANGED reply

\* The route answers the call ({success: true, height} or 400 with the
\* error's message); the next call is taken after it.
Respond ==
    /\ last # Idle
    /\ last' = Idle
    /\ undone' = <<>>
    /\ reply' = NoReply
    /\ UNCHANGED conc
    /\ UNCHANGED <<blocks, transactions, outputs, current_height, snap, chain>>

Next == Ingest \/ Rollback \/ Respond

Spec == Init /\ [][Next]_vars

\* ------------------------------------------------------------------ POST /rollback

\* `request.query.height`: undefined, or a string (a sequence of characters).
Undefined == [present |-> FALSE, text |-> <<>>]

Str(text) == [present |-> TRUE, text |-> text]

\* A JavaScript number that is NaN, or the integer n.
NaN == [nan |-> TRUE, n |-> 0]

Num(n) == [nan |-> FALSE, n |-> n]

Digit == [ch \in {"0", "1", "2", "3", "4", "5", "6", "7", "8", "9"} |->
            CASE ch = "0" -> 0 [] ch = "1" -> 1 [] ch = "2" -> 2 [] ch = "3" -> 3
              [] ch = "4" -> 4 [] ch = "5" -> 5 [] ch = "6" -> 6 [] ch = "7" -> 7
              [] ch = "8" -> 8 [] ch = "9" -> 9]

RECURSIVE TrimStart(_)
\* parseInt skips leading white space.
TrimStart(str) == IF str # <<>> /\ Head(str) = " " THEN TrimStart(Tail(str)) ELSE str

RECURSIVE DigitsValue(_, _)
\* The value of the longest prefix of decimal digits of str, after acc.
DigitsValue(str, acc) ==
    IF str = <<>> \/ Head(str) \notin DOMAIN Digit THEN acc
    ELSE DigitsValue(Tail(str), 10 * acc + Digit[Head(str)])

\* parseInt(string) for strings without a 0x prefix: white space, an optional
\* sign, then the longest prefix of digits; NaN when there is no digit.
parseInt(str) ==
    LET t      == TrimStart(str)
        signed == t # <<>> /\ Head(t) \in {"-", "+"}
        body   == IF signed THEN Tail(t) ELSE t
    IN  IF body = <<>> \/ Head(body) \notin DOMAIN Digit THEN NaN
        ELSE IF signed /\ Head(t) = "-" THEN Num(0 - DigitsValue(body, 0))
        ELSE Num(DigitsValue(body, 0))

\* `!height`: the parameter is absent or the empty string.
ParamMissing(param) == ~param.present \/ param.text = <<>>

\* The second check without `|| targetHeight < 0`.
ParamOkNoSign(param) == ~ParamMissing(param) /\ ~parseInt(param.text).nan

\* Neither `!height` nor `isNaN(targetHeight) || targetHeight < 0` replies 400.
ParamOk(param) ==
    /\ ~ParamMissing(param)
    /\ ~parseInt(param.text).nan
    /\ parseInt(param.text).n >= 0

\* The query parameters requests carry.
Params ==
    {Undefined} \cup
    { Str(text) : text \in
        { <<>>, <<"a">>, <<"-", "1">>, <<"-">>, <<"0">>, <<"1">>, <<"2">>, <<"4">>,
          <<"1", "0">>, <<" ", "1">>, <<"+", "2">>, <<"1", ".", "5">>, <<"2", "x">> } }

Reply400(param, invoked, message) ==
    [param |-> param, invoked |-> invoked, status |-> 400, success |-> FALSE,
     height |-> 0, error |-> message]

\* The handler of POST /rollback on a query parameter: 400 for a missing or
\* bad parameter, else rollbackToHeight and {success: true, height} or 400
\* with the error's message.
RollbackRequest ==
    /\ last = Idle
    /\ UNCHANGED conc
    /\ \E param \in Params, rev \in BOOLEAN :
        IF ~ParamOk(param)
        THEN /\ reply' = Reply400(param, FALSE,
                                  IF ParamMissing(param) THEN "height parameter is required"
                                  ELSE "height must be a valid positive number")
             /\ last' = [Idle EXCEPT !.op = "request", !.pre = Db]
             /\ UNCHANGED <<blocks, transactions, outputs, current_height, snap, chain,
                            undone>>
        ELSE LET targetHeight == parseInt(param.text).n
                 r            == rollbackToHeight(Db, targetHeight, rev)
             IN  /\ Commit(r.db)
                 /\ last' = [op |-> "request", block |-> NoBlock, target |-> targetHeight,
                             rev |-> rev, err |-> r.err, at |-> 0, pre |-> Db]
                 /\ reply' = IF r.err = "ok"
                             THEN [param |-> param, invoked |-> TRUE, status |-> 200,
                                   success |-> TRUE, height |-> targetHeight, error |-> ""]
                             ELSE Reply400(param, TRUE, r.err)
                 /\ snap' = IF r.err = "ok"
                            THEN [h \in {x \in DOMAIN snap : x <= targetHeight} |-> snap[h]]
                            ELSE snap
                 /\ chain' = IF r.err = "ok"
                             THEN [h \in {x \in DOMAIN chain : x <= targetHeight} |-> chain[h]]
                             ELSE chain
                 /\ undone' = IF r.err = "ok"
                              THEN [h \in {x \in DOMAIN chain : x > targetHeight} |-> chain[h]]
                              ELSE <<>>

RouteNext == Ingest \/ RollbackRequest \/ Respond

SpecRoute == Init /\ [][RouteNext]_vars

\* ------------------------------------------------------------------ deep chain

\* The same engine on a chain as long as the rollback window. The chain is
\* the one processBlock builds from these blocks: a coinbase at height 1, its
\* spender at height 2, blocks without transactions above.
DeepTxs(height) ==
    IF height = 1 THEN <<Tx("a", <<>>, <<Out("x", 2)>>)>>
    ELSE IF height = 2 THEN <<Tx("b", <<In("a", 0)>>, <<Out("y", 2)>>)>>
    ELSE <<>>

DeepBlock(height) ==
    [id |-> calculateBlockHash(height, [i \in 1..Len(DeepTxs(height)) |-> DeepTxs(height)[i].id]),
     height |-> height, transactions |-> DeepTxs(height)]

RECURSIVE Grow(_, _, _)
\* The database after processBlock has taken DeepBlock(lo), ..., DeepBlock(hi)
\* in turn, starting on c (the range is halved as in RemoveBlocks).
Grow(c, lo, hi) ==
    IF lo > hi THEN c
    ELSE IF lo = hi THEN processBlock(c, DeepBlock(lo)).db
    ELSE LET mid   == (lo + hi) \div 2
             lower == Grow(c, lo, mid)
         IN  IF lower.current_height = mid THEN Grow(lower, mid + 1, hi) ELSE lower

\* The heights blocks are submitted for, and the heights rolled back to.
DeepHeights == {1, RollbackWindow, RollbackWindow + 1, RollbackWindow + 2}

DeepTargets == {0, 1, RollbackWindow, RollbackWindow + 1, RollbackWindow + 2}

DeepInit ==
    LET c == Grow(createTables, 1, RollbackWindow)
    IN  /\ blocks = c.blocks
        /\ transactions = c.transactions
        /\ outputs = c.outputs
        /\ current_height = c.current_height
        /\ last = Idle
        /\ snap = [h \in {0} |-> createTables]
        /\ chain = <<>>
        /\ undone = <<>>
        /\ reply = NoReply
        /\ procs = [p \in Procs |-> IdleProc]
        /\ base = createTables
        /\ commits = {createTables}

\* POST /blocks on the deep chain (`snap`, `chain` and `undone` are logs of
\* Spec only).
DeepIngest ==
    /\ last = Idle
    /\ UNCHANGED conc
    /\ \E height \in DeepHeights, txs \in {<<>>, DeepTxs(1), DeepTxs(2)} :
        \E id \in BlockIdsFor(height, txs) :
          LET block == [id |-> id, height |-> height, transactions |-> txs]
              r     == processBlock(Db, block)
          IN  /\ Commit(r.db)
              /\ last' = [op |-> "ingest", block |-> block, target |-> 0, rev |-> FALSE,
                          err |-> r.err, at |-> r.at, pre |-> Db]
              /\ UNCHANGED <<snap, chain, undone, reply>>

\* POST /rollback on the deep chain.
DeepRollback ==
    /\ last = Idle
    /\ UNCHANGED conc
    /\ \E targetHeight \in DeepTargets, rev \in BOOLEAN :
        LET r == rollbackToHeight(Db, targetHeight, rev)
        IN  /\ Commit(r.db)
            /\ last' = [op |-> "rollback", block |-> NoBlock, target |-> targetHeight,
                        rev |-> rev, err |-> r.err, at |-> 0, pre |-> Db]
            /\ UNCHANGED <<snap, chain, undone, reply>>

DeepNext == DeepIngest \/ DeepRollback \/ Respond

SpecDeep == DeepInit /\ [][DeepNext]_vars

\* ------------------------------------------------------------------ concurrent calls

\* The same engine, one statement at a time, for handlers running at the same
\* time. The store is PostgreSQL at its default isolation, READ COMMITTED:
\* a statement on a client sees the committed rows and the client's own
\* writes; a statement through the pool runs on another connection and sees
\* the committed rows only; a write waits while another open transaction
\* holds the row (or the unique key) it needs, and goes on, on the rows as
\* committed by then, when that transaction has ended.

\* The blocks handlers submit at the same time.
ConcBlock(height, txs) ==
    [id |-> calculateBlockHash(height, [i \in 1..Len(txs) |-> txs[i].id]),
     height |-> height, transactions |-> txs]

ConcBlocks ==
    { ConcBlock(1, <<Tx("a", <<>>, <<Out("x", 2)>>)>>),
      ConcBlock(2, <<Tx("b", <<In("a", 0)>>, <<Out("y", 2)>>)>>),
      ConcBlock(2, <<Tx("c", <<In("a", 0)>>, <<Out("x", 2)>>)>>),
      ConcBlock(2, <<Tx("e", <<>>, <<Out("y", 2)>>)>>),
      ConcBlock(2, <<Tx("e", <<>>, <<Out("y", 2)>>), Tx("g", <<In("e", 0)>>, <<Out("x", 2)>>)>>),
      ConcBlock(3, <<Tx("c", <<In("a", 0)>>, <<Out("x", 2)>>)>>),
      ConcBlock(3, <<Tx("d", <<In("a", 0), In("e", 0)>>, <<Out("x", 4)>>)>>) }

\* The heights handlers roll back to at the same time.
ConcTargets == {0, 1, 2}

\* The committed database seen by a query through the pool; `open` are the
\* views of the open transactions, which it does not see.
PoolReadDirty(c, open) == IF open = {} THEN c ELSE CHOOSE w \in open : TRUE

PoolRead(c, open) == c

\* The database as a statement on the client of handler p sees it.
View(c, p) ==
    [blocks |-> (c.blocks \ p.removed.blocks) \cup p.added.blocks,
     transactions |-> (c.transactions \ p.removed.transactions) \cup p.added.transactions,
     outputs |-> (c.outputs \ p.removed.outputs) \cup p.added.outputs,
     current_height |-> IF p.hset THEN p.hval ELSE c.current_height]

\* The views of the open transactions that have written something.
OpenViews ==
    {View(Db, procs[q]) : q \in {x \in Procs : procs[x].added # NoRows
                                               \/ procs[x].removed # NoRows
                                               \/ procs[x].hset}}

\* Handler p after a statement took its view from w to w2: the rows it has
\* inserted, and the committed rows it has deleted or replaced.
Track(p, w, w2) ==
    LET gone(t) == w[t] \ w2[t]
        new(t)  == w2[t] \ w[t]
    IN  [p EXCEPT
          !.added   = [t \in DOMAIN NoRows |-> (p.added[t] \ gone(t)) \cup new(t)],
          !.removed = [t \in DOMAIN NoRows |-> p.removed[t] \cup (gone(t) \ p.added[t])]]

OutKey(o) == <<o.tx_id, o.output_index>>

\* The other handlers with an open transaction.
Others(self) == {q \in Procs \ {self} : procs[q].pc \notin {"idle", "done"}}

\* INSERT INTO blocks waits for an open transaction that has inserted or
\* deleted a row of the same id or height.
InsertBlockWaits(self) ==
    \E q \in Others(self) :
        \E b \in procs[q].added.blocks \cup procs[q].removed.blocks :
            b.id = procs[self].block.id \/ b.height = procs[self].block.height

\* INSERT INTO transactions waits for one that has written a row of the id.
InsertTransactionWaits(self, id) ==
    \E q \in Others(self) :
        \E t \in procs[q].added.transactions \cup procs[q].removed.transactions : t.id = id

\* INSERT INTO outputs waits for one that has written a row of the key.
InsertOutputWaits(self, key) ==
    \E q \in Others(self) :
        \E o \in procs[q].added.outputs \cup procs[q].removed.outputs : OutKey(o) = key

\* An UPDATE or DELETE waits for an open transaction that has replaced or
\* deleted one of the rows it matches.
RowsWait(self, table, rows) ==
    \E q \in Others(self) : rows \cap procs[q].removed[table] # {}

\* UPDATE state waits for an open transaction that has updated the row.
StateWaits(self) == \E q \in Others(self) : procs[q].hset

\* The statement handler `self` is at waits for a lock.
Waits(self) ==
    LET p  == procs[self]
        w  == View(Db, p)
        tx == p.block.transactions[p.k]
    IN  CASE p.pc = "insblock"  -> InsertBlockWaits(self)
          [] p.pc = "instx"     -> InsertTransactionWaits(self, tx.id)
          [] p.pc = "spend"     ->
                RowsWait(self, "outputs",
                         {o \in w.outputs : /\ o.tx_id = tx.inputs[p.j].txId
                                            /\ o.output_index = tx.inputs[p.j].index
                                            /\ o.spent = FALSE})
          [] p.pc = "insout"    -> InsertOutputWaits(self, <<tx.id, p.j - 1>>)
          [] p.pc = "unspend"   ->
                RowsWait(self, "outputs", {o \in w.outputs : o.spent_by_tx = p.txs[p.j]})
          [] p.pc = "delouts"   ->
                RowsWait(self, "outputs", {o \in w.outputs : o.tx_id = p.txs[p.j]})
          [] p.pc = "deltxs"    ->
                RowsWait(self, "transactions",
                         {t \in w.transactions : t.block_height = p.rows[p.k].height})
          [] p.pc = "delblock"  ->
                \/ RowsWait(self, "blocks", {b \in w.blocks : b.id = p.rows[p.k].id})
                \/ RowsWait(self, "transactions",
                            {t \in w.transactions : t.block_id = p.rows[p.k].id})
          [] p.pc = "setheight" -> StateWaits(self)
          [] OTHER              -> FALSE

\* A statement or a check threw: the catch block is next.
Fail(p, err, at) == [p EXCEPT !.pc = "abort", !.err = err, !.at = at]

\* The loop of processBlock comes to transaction k; validateTransaction makes
\* no query for a transaction without inputs.
EnterTx(p, k) ==
    IF k > Len(p.block.transactions) THEN [p EXCEPT !.pc = "setheight"]
    ELSE IF Len(p.block.transactions[k].inputs) = 0 THEN [p EXCEPT !.pc = "instx", !.k = k]
    ELSE [p EXCEPT !.pc = "input", !.k = k, !.j = 1, !.sum = 0]

\* After the inputs of transaction p.k are marked: its outputs, or the next
\* transaction.
EnterOutputs(p) ==
    IF Len(p.block.transactions[p.k].outputs) > 0 THEN [p EXCEPT !.pc = "insout", !.j = 1]
    ELSE EnterTx(p, p.k + 1)

Step(self, p) ==
    /\ procs' = [procs EXCEPT ![self] = p]
    /\ UNCHANGED <<blocks, transactions, outputs, current_height, base, commits>>
    /\ UNCHANGED seq

\* A handler takes a request: `pool.connect()` and BEGIN.
Start(self) ==
    /\ procs[self].pc = "idle"
    /\ \E call \in [op : {"ingest"}, block : ConcBlocks, target : {0}, address : {""}]
               \cup [op : {"rollback"}, block : {NoBlock}, target : ConcTargets, address : {""}]
               \cup [op : {"balance"}, block : {NoBlock}, target : {0}, address : Addresses] :
         procs' = [procs EXCEPT ![self] =
                     [IdleProc EXCEPT !.pc = IF call.op = "balance" THEN "query" ELSE "height",
                                      !.op = call.op, !.block = call.block,
                                      !.target = call.target, !.address = call.address]]
    /\ base' = IF \A q \in Procs : procs[q].pc = "idle" THEN Db ELSE base
    /\ commits' = IF \A q \in Procs : procs[q].pc = "idle" THEN {Db} ELSE commits
    /\ UNCHANGED <<blocks, transactions, outputs, current_height>>
    /\ UNCHANGED seq

\* processBlock: getCurrentHeight(pool), the height check and the hash check.
IngestReadHeight(self) ==
    LET p == procs[self]
        c == PoolRead(Db, OpenViews)
    IN  /\ p.pc = "height" /\ p.op = "ingest"
        /\ Step(self, IF ~HeightOk(c, p.block) THEN Fail(p, "InvalidHeight", 0)
                      ELSE IF ~HashOk(p.block) THEN Fail(p, "InvalidHash", 0)
                      ELSE [p EXCEPT !.pc = "insblock", !.h = getCurrentHeight(c)])

\* processBlock: INSERT INTO blocks.
IngestInsertBlock(self) ==
    LET p == procs[self]
        w == View(Db, p)
        r == InsertBlock(w, p.block)
    IN  /\ p.pc = "insblock" /\ ~Waits(self)
        /\ Step(self, IF r.err # "ok" THEN Fail(p, r.err, 0)
                      ELSE EnterTx(Track(p, w, r.w), 1))

\* validateTransaction: one getOutputValue(pool, ...) of calculateInputSum,
\* and after the last one the comparison of the sums.
IngestReadInput(self) ==
    LET p    == procs[self]
        tx   == p.block.transactions[p.k]
        rows == getOutputValue(PoolRead(Db, OpenViews), tx.inputs[p.j].txId, tx.inputs[p.j].index)
        sum  == p.sum + (CHOOSE r \in rows : TRUE).value
    IN  /\ p.pc = "input"
        /\ Step(self, IF rows = {} THEN Fail(p, "OutputNotFound", p.k)
                      ELSE IF p.j < Len(tx.inputs) THEN [p EXCEPT !.j = p.j + 1, !.sum = sum]
                      ELSE IF sum # OutputSum(tx.outputs, 1) THEN Fail(p, "ValueMismatch", p.k)
                      ELSE [p EXCEPT !.pc = "instx", !.sum = sum])

\* processBlock: INSERT INTO transactions.
IngestInsertTransaction(self) ==
    LET p  == procs[self]
        tx == p.block.transactions[p.k]
        w  == View(Db, p)
        r  == InsertTransaction(w, tx, p.block)
        t  == Track(p, w, r.w)
    IN  /\ p.pc = "instx" /\ ~Waits(self)
        /\ Step(self, IF r.err # "ok" THEN Fail(p, r.err, p.k)
                      ELSE IF Len(tx.inputs) > 0 THEN [t EXCEPT !.pc = "spend", !.j = 1]
                      ELSE EnterOutputs(t))

\* processBlock: one UPDATE outputs SET spent = TRUE ... AND spent = FALSE.
IngestSpend(self) ==
    LET p  == procs[self]
        tx == p.block.transactions[p.k]
        w  == View(Db, p)
        r  == SpendOutput(w, tx.id, tx.inputs[p.j])
        t  == Track(p, w, r.w)
    IN  /\ p.pc = "spend" /\ ~Waits(self)
        /\ Step(self, IF r.err # "ok" THEN Fail(p, r.err, p.k)
                      ELSE IF p.j < Len(tx.inputs) THEN [t EXCEPT !.j = p.j + 1]
                      ELSE EnterOutputs(t))

\* processBlock: one INSERT INTO outputs.
IngestInsertOutput(self) ==
    LET p  == procs[self]
        tx == p.block.transactions[p.k]
        w  == View(Db, p)
        r  == InsertOutput(w, tx, p.j)
        t  == Track(p, w, r.w)
    IN  /\ p.pc = "insout" /\ ~Waits(self)
        /\ Step(self, IF r.err # "ok" THEN Fail(p, r.err, p.k)
                      ELSE IF p.j < Len(tx.outputs) THEN [t EXCEPT !.j = p.j + 1]
                      ELSE EnterTx(t, p.k + 1))

\* processBlock: UPDATE state SET current_height = block.height.
IngestSetHeight(self) ==
    LET p == procs[self]
    IN  /\ p.pc = "setheight" /\ p.op = "ingest" /\ ~Waits(self)
        /\ Step(self, [p EXCEPT !.pc = "commit", !.hset = TRUE,
                                !.hval = SetHeight(View(Db, p), p.block.height).current_height])

RECURSIVE Desc(_)
\* ORDER BY height DESC.
Desc(rows) ==
    IF rows = {} THEN <<>>
    ELSE LET top == CHOOSE b \in rows : \A x \in rows : x.height <= b.height
         IN  <<top>> \o Desc(rows \ {top})

\* rollbackToHeight: getCurrentHeight(pool) and the two checks.
RollbackReadHeight(self) ==
    LET p == procs[self]
        c == PoolRead(Db, OpenViews)
    IN  /\ p.pc = "height" /\ p.op = "rollback"
        /\ Step(self, IF ~NotFuture(c, p.target) THEN Fail(p, "FutureHeight", 0)
                      ELSE IF ~WithinWindow(c, p.target)
                      THEN Fail(p, "RollbackWindowExceeded", 0)
                      ELSE [p EXCEPT !.pc = "selblocks", !.h = getCurrentHeight(c)])

\* rollbackToHeight: SELECT id, height FROM blocks WHERE height > $1 ORDER BY
\* height DESC.
RollbackSelectBlocks(self) ==
    LET p    == procs[self]
        rows == Desc(SelectBlocksAbove(View(Db, p), p.target))
    IN  /\ p.pc = "selblocks"
        /\ Step(self, IF rows = <<>> THEN [p EXCEPT !.pc = "setheight"]
                      ELSE [p EXCEPT !.pc = "seltxs", !.rows = rows, !.k = 1])

\* rollbackToHeight: SELECT id FROM transactions WHERE block_height = $1.
RollbackSelectTxs(self) ==
    LET p   == procs[self]
        txs == SelectTxIds(View(Db, p), p.rows[p.k].height, p.rev)
    IN  /\ p.pc = "seltxs"
        /\ Step(self, IF txs = <<>> THEN [p EXCEPT !.pc = "deltxs", !.txs = txs]
                      ELSE [p EXCEPT !.pc = "unspend", !.txs = txs, !.j = 1])

\* rollbackToHeight: UPDATE outputs SET spent = FALSE, spent_by_tx = NULL.
RollbackUnspend(self) ==
    LET p == procs[self]
        w == View(Db, p)
    IN  /\ p.pc = "unspend" /\ ~Waits(self)
        /\ Step(self, [Track(p, w, UnspendBy(w, p.txs[p.j])) EXCEPT !.pc = "delouts"])

\* rollbackToHeight: DELETE FROM outputs WHERE tx_id = $1.
RollbackDeleteOutputs(self) ==
    LET p == procs[self]
        w == View(Db, p)
        t == Track(p, w, DeleteOutputsOf(w, p.txs[p.j]))
    IN  /\ p.pc = "delouts" /\ ~Waits(self)
        /\ Step(self, IF p.j < Len(p.txs) THEN [t EXCEPT !.pc = "unspend", !.j = p.j + 1]
                      ELSE [t EXCEPT !.pc = "deltxs"])

\* rollbackToHeight: DELETE FROM transactions WHERE block_height = $1.
RollbackDeleteTransactions(self) ==
    LET p == procs[self]
        w == View(Db, p)
    IN  /\ p.pc = "deltxs" /\ ~Waits(self)
        /\ Step(self, [Track(p, w, DeleteTransactionsAt(w, p.rows[p.k].height))
                         EXCEPT !.pc = "delblock"])

\* rollbackToHeight: DELETE FROM blocks WHERE id = $1, then the next row.
RollbackDeleteBlock(self) ==
    LET p == procs[self]
        w == View(Db, p)
        t == Track(p, w, DeleteBlock(w, p.rows[p.k].id))
    IN  /\ p.pc = "delblock" /\ ~Waits(self)
        /\ Step(self, IF p.k < Len(p.rows) THEN [t EXCEPT !.pc = "seltxs", !.k = p.k + 1]
                      ELSE [t EXCEPT !.pc = "setheight"])

\* rollbackToHeight: UPDATE state SET current_height = targetHeight.
RollbackSetHeight(self) ==
    LET p == procs[self]
    IN  /\ p.pc = "setheight" /\ p.op = "rollback" /\ ~Waits(self)
        /\ Step(self, [p EXCEPT !.pc = "commit", !.hset = TRUE,
                                !.hval = SetHeight(View(Db, p), p.target).current_height])

\* The call of handler p has ended: its transaction is closed, its locals gone.
Finish(p, err, at, result, height) ==
    [IdleProc EXCEPT !.pc = "done", !.op = p.op, !.block = p.block, !.target = p.target,
                     !.address = p.address, !.err = err, !.at = at, !.result = result,
                     !.hAtCommit = height]

\* COMMIT: what the open transaction wrote becomes the committed database.
CommitCall(self) ==
    LET p == procs[self]
    IN  /\ p.pc = "commit"
        /\ Commit(View(Db, p))
        /\ procs' = [procs EXCEPT ![self] = Finish(p, "ok", 0, 0, current_height)]
        /\ commits' = commits \cup {View(Db, p)}
        /\ UNCHANGED base
        /\ UNCHANGED seq

\* catch: ROLLBACK, and the error is thrown on to the route.
AbortCall(self) ==
    LET p == procs[self]
    IN  /\ p.pc = "abort"
        /\ Commit(Abort(Db, View(Db, p)))
        /\ procs' = [procs EXCEPT ![self] = Finish(p, p.err, p.at, 0, 0)]
        /\ commits' = commits \cup {Abort(Db, View(Db, p))}
        /\ UNCHANGED base
        /\ UNCHANGED seq

\* The store finds two transactions waiting for each other and fails the
\* statement of one of them ("deadlock detected").
DeadlockDetected(self) ==
    LET p == procs[self]
    IN  /\ Waits(self)
        /\ \E q \in Others(self) : Waits(q)
        /\ Step(self, Fail(p, "StoreFault", IF p.op = "ingest" THEN p.k ELSE 0))

\* GET /balances/:address: getBalance(pool, address).
BalanceQuery(self) ==
    LET p == procs[self]
    IN  /\ p.pc = "query"
        /\ Step(self, Finish(p, "ok", 0, getBalance(PoolRead(Db, OpenViews), p.address), 0))

\* The handlers that ran have replied.
Ack ==
    /\ \A q \in Procs : procs[q].pc \in {"idle", "done"}
    /\ \E q \in Procs : procs[q].pc = "done"
    /\ procs' = [q \in Procs |-> IdleProc]
    /\ base' = Db
    /\ commits' = {Db}
    /\ UNCHANGED <<blocks, transactions, outputs, current_height>>
    /\ UNCHANGED seq

ConcNext ==
    \/ Ack
    \/ \E self \in Procs :
        \/ Start(self)
        \/ IngestReadHeight(self)
        \/ IngestInsertBlock(self)
        \/ IngestReadInput(self)
        \/ IngestInsertTransaction(self)
        \/ IngestSpend(self)
        \/ IngestInsertOutput(self)
        \/ IngestSetHeight(self)
        \/ RollbackReadHeight(self)
        \/ RollbackSelectBlocks(self)
        \/ RollbackSelectTxs(self)
        \/ RollbackUnspend(self)
        \/ RollbackDeleteOutputs(self)
        \/ RollbackDeleteTransactions(self)
        \/ RollbackDeleteBlock(self)
        \/ RollbackSetHeight(self)
        \/ CommitCall(self)
        \/ AbortCall(self)
        \/ DeadlockDetected(self)
        \/ BalanceQuery(self)

SpecConc == Init /\ [][ConcNext]_vars

\* ------------------------------------------------------------------ the pool
\* initializePool: `new Pool({connectionString})` sets neither `max` nor
\* `connectionTimeoutMillis`, so the pool has a fixed number of connections
\* and pool.connect() waits without limit when all are checked out.
\* processBlock and rollbackToHeight keep the client of pool.connect() until
\* `finally { client.release() }`; every pool.query(...) (getCurrentHeight,
\* getOutputValue, getBalance) takes another connection for its statement.

\* The connections of the pool: as many as there are handlers, the case of
\* `max` requests in progress at once.
PoolMax == Cardinality(Procs)

\* The handlers holding a client.
Clients == {q \in Procs : procs[q].pc \notin {"idle", "done"} /\ procs[q].op # "balance"}

\* pool.connect() is served: a connection is not checked out.
PoolIdle == Cardinality(Clients) < PoolMax

\* processBlock / rollbackToHeight: `await pool.connect()` is served, BEGIN.
Connect(self) == PoolIdle /\ Start(self) /\ procs'[self].op # "balance"

\* GET /balances/:address is taken.
Receive(self) == Start(self) /\ procs'[self].op = "balance"

\* The statements sent through the pool, each served when a connection is idle.
PoolIngestReadHeight(self) == PoolIdle /\ IngestReadHeight(self)

PoolIngestReadInput(self) == PoolIdle /\ IngestReadInput(self)

PoolRollbackReadHeight(self) == PoolIdle /\ RollbackReadHeight(self)

PoolBalanceQuery(self) == PoolIdle /\ BalanceQuery(self)

\* The steps of a handler that has taken a request. With as many handlers as
\* connections a second handler cannot pass its first pool read while the
\* first holds a client, so no statement waits for a lock here and the store
\* has no deadlock to detect.
Runs(self) ==
    \/ PoolIngestReadHeight(self)
    \/ IngestInsertBlock(self)
    \/ PoolIngestReadInput(self)
    \/ IngestInsertTransaction(self)
    \/ IngestSpend(self)
    \/ IngestInsertOutput(self)
    \/ IngestSetHeight(self)
    \/ PoolRollbackReadHeight(self)
    \/ RollbackSelectBlocks(self)
    \/ RollbackSelectTxs(self)
    \/ RollbackUnspend(self)
    \/ RollbackDeleteOutputs(self)
    \/ RollbackDeleteTransactions(self)
    \/ RollbackDeleteBlock(self)
    \/ RollbackSetHeight(self)
    \/ CommitCall(self)
    \/ AbortCall(self)
    \/ PoolBalanceQuery(self)

PoolNext ==
    \/ Ack
    \/ \E self \in Procs :
        \/ Connect(self)
        \/ Receive(self)
        \/ Runs(self)

\* Every handler that can take a step eventually takes one.
SpecPool == Init /\ [][PoolNext]_vars /\ \A self \in Procs : WF_vars(Runs(self))

\* ------------------------------------------------------------------ claims

IngestDone == last.op = "ingest"

RollbackDone == last.op = "rollback"

Failed == last.err # "ok"

\* C1: an ingestion succeeds only if block.height is the current height
\* plus one at that moment, any other height is rejected with InvalidHeight,
\* and after a successful ingestion the current height is the block's height.
C1_HeightLinear ==
    IngestDone =>
        /\ ~Failed => last.block.height = last.pre.current_height + 1
        /\ last.block.height # last.pre.current_height + 1 => last.err = "InvalidHeight"
        /\ ~Failed => current_height = last.block.height

C1_Witness ==
    /\ IngestDone /\ ~Failed
    /\ last.pre.current_height >= 1
    /\ current_height = last.pre.current_height + 1

\* C2: in every state the heights of the stored blocks are exactly
\* 1..current_height, one block per height, so current_height is the height
\* of the highest stored block, or 0 when no block is stored.
C2_Contiguous ==
    /\ {b.height : b \in blocks} = 1..current_height
    /\ Cardinality(blocks) = current_height

C2_Witness ==
    /\ RollbackDone /\ ~Failed
    /\ last.pre.current_height >= last.target + 2
    /\ last.target >= 1
    /\ blocks # {}

\* C3: a failed ingestion leaves blocks, transactions, outputs (with their
\* spent flags and spending references) and the current height exactly as
\* they were before the call.
C3_AllOrNothing == (IngestDone /\ Failed) => Db = last.pre

\* A failure at the second transaction, after the first one had spent an output.
C3_Witness ==
    /\ IngestDone /\ Failed
    /\ last.at = 2
    /\ Len(last.block.transactions[1].inputs) > 0
    /\ outputs # {}

\* C4: a block for height current + 1 whose id differs from
\* calculateBlockHash(height, ids in block order) fails with InvalidHash and
\* leaves the database unchanged.
C4_InvalidHash ==
    ( /\ IngestDone
      /\ last.block.height = last.pre.current_height + 1
      /\ last.block.id # calculateBlockHash(last.block.height, TxIdsOf(last.block)) )
    => (last.err = "InvalidHash" /\ Db = last.pre)

C4_Witness ==
    /\ IngestDone
    /\ last.pre.current_height >= 1
    /\ last.block.height = last.pre.current_height + 1
    /\ Len(last.block.transactions) = 2
    /\ last.block.id # calculateBlockHash(last.block.height, TxIdsOf(last.block))
    /\ last.err = "InvalidHash"

RECURSIVE WeightedCount(_, _)
\* The sum of v times the number of rows of value v, over the values vs.
WeightedCount(rows, vs) ==
    IF vs = {} THEN 0
    ELSE LET v == CHOOSE x \in vs : TRUE
         IN  v * Cardinality({o \in rows : o.value = v}) + WeightedCount(rows, vs \ {v})

\* The total value of the stored, unspent outputs addressed to `address`.
UnspentValue(address) ==
    LET rows == {o \in outputs : o.address = address /\ ~o.spent}
    IN  WeightedCount(rows, {o.value : o \in rows})

\* C7: in every state balance(address) is the sum of the values of the
\* stored unspent outputs addressed to it, and 0 for an address without any.
C7_Balance ==
    \A address \in Addresses \cup {"nobody"} :
        /\ getBalance(Db, address) = UnspentValue(address)
        /\ ~(\E o \in outputs : o.address = address /\ ~o.spent)
             => getBalance(Db, address) = 0

\* After a failed call, with a spent output of x and an unspent one of y.
C7_Witness ==
    /\ last.op # "none" /\ Failed
    /\ \E o \in outputs : o.address = "x" /\ o.spent
    /\ getBalance(Db, "x") = 0
    /\ getBalance(Db, "y") = 2

\* C9: a rollback to a height above the current one fails with FutureHeight
\* and leaves the database unchanged.
C9_FutureHeight ==
    (RollbackDone /\ last.target > last.pre.current_height)
    => (last.err = "FutureHeight" /\ Db = last.pre)

C9_Witness ==
    /\ RollbackDone
    /\ last.pre.current_height >= 1
    /\ last.target = last.pre.current_height + 1
    /\ last.err = "FutureHeight"

\* ---- the transactions of the logged block

LTx(k) == last.block.transactions[k]

LRef(p) == LTx(p[1]).inputs[p[2]]

\* The input positions <<transaction, input>> of the logged block.
Positions ==
    UNION { {<<k, j>> : j \in 1..Len(LTx(k).inputs)} : k \in 1..Len(last.block.transactions) }

Earlier(p, q) == p[1] < q[1] \/ (p[1] = q[1] /\ p[2] < q[2])

HeaderOk ==
    /\ last.block.height = last.pre.current_height + 1
    /\ last.block.id = calculateBlockHash(last.block.height, TxIdsOf(last.block))

\* The loop of processBlock came to transaction k.
Reached(k) == HeaderOk /\ (~Failed \/ last.at >= k)

\* The database as the call's own transaction has it when the loop comes to
\* transaction k: the block row and the rows of transactions 1..k-1.
ViewAt(k) ==
    ApplyTransactions(last.pre, InsertBlock(last.pre, last.block).w,
                      [last.block EXCEPT !.transactions = SubSeq(@, 1, k - 1)], 1).w

Resolves(view, tx) ==
    \A j \in 1..Len(tx.inputs) :
        \E o \in view.outputs :
            o.tx_id = tx.inputs[j].txId /\ o.output_index = tx.inputs[j].index

RECURSIVE RefSum(_, _, _)
\* The sum of the values of the outputs referenced by inputs j.. of tx.
RefSum(view, tx, j) ==
    IF j > Len(tx.inputs) THEN 0
    ELSE LET o == CHOOSE x \in view.outputs :
                      x.tx_id = tx.inputs[j].txId /\ x.output_index = tx.inputs[j].index
         IN  o.value + RefSum(view, tx, j + 1)

RECURSIVE Declared(_, _)
Declared(tx, i) == IF i > Len(tx.outputs) THEN 0 ELSE tx.outputs[i].value + Declared(tx, i + 1)

\* Transaction k passed the validator.
Validated(k) == Reached(k) /\ ~(last.at = k /\ last.err \in {"OutputNotFound", "ValueMismatch"})

\* The statement of C5 for transaction k, its referenced outputs looked up in `view`.
ConservationAt(k, view) ==
    (Reached(k) /\ Len(LTx(k).inputs) > 0 /\ Resolves(view, LTx(k)))
    => /\ Validated(k) <=> RefSum(view, LTx(k), 1) = Declared(LTx(k), 1)
       /\ RefSum(view, LTx(k), 1) # Declared(LTx(k), 1)
            => (last.at = k /\ last.err = "ValueMismatch" /\ Db = last.pre)

\* C5: a transaction with at least one input passes validation iff the values
\* of the outputs its inputs reference (in the store as it is when the
\* transaction is taken, siblings before it applied) sum to its declared
\* output values, and a mismatch fails with ValueMismatch and leaves the
\* database as before the call.
C5_Conservation ==
    IngestDone => \A k \in 1..Len(last.block.transactions) : ConservationAt(k, ViewAt(k))

\* C5 with the referenced outputs looked up in the committed database only,
\* which is where validateTransaction reads them.
C5_CommittedOnly ==
    IngestDone => \A k \in 1..Len(last.block.transactions) : ConservationAt(k, last.pre)

\* An input position references an output that is already spent: the output is
\* stored or made by an earlier sibling, and is flagged spent or referenced by
\* an earlier input of the block.
AlreadySpent(p) ==
    /\ \/ \E o \in last.pre.outputs :
             o.tx_id = LRef(p).txId /\ o.output_index = LRef(p).index
       \/ \E k \in 1..(p[1] - 1) :
             LTx(k).id = LRef(p).txId /\ LRef(p).index < Len(LTx(k).outputs)
    /\ \/ \E o \in last.pre.outputs :
             o.tx_id = LRef(p).txId /\ o.output_index = LRef(p).index /\ o.spent
       \/ \E q \in Positions : Earlier(q, p) /\ LRef(q) = LRef(p)

\* C6 as stated, for a block that passes the header checks and whose first
\* transaction, of an id not stored yet, references an output that an earlier
\* block has spent: it fails with DoubleSpend.
C6_AlwaysDoubleSpend ==
    ( /\ IngestDone /\ HeaderOk
      /\ \E p \in Positions :
           /\ p[1] = 1
           /\ \A t \in last.pre.transactions : t.id # LTx(1).id
           /\ \E o \in last.pre.outputs :
                o.tx_id = LRef(p).txId /\ o.output_index = LRef(p).index /\ o.spent )
    => last.err = "DoubleSpend"

\* No earlier check fails before the spend marking of transaction k: the block
\* row and the transaction rows 1..k insert, transactions 1..k pass validation.
NothingFailsBefore(k) ==
    /\ HeaderOk
    /\ \A b \in last.pre.blocks : b.id # last.block.id
    /\ \A i \in 1..k :
        /\ validateTransaction(last.pre, LTx(i)) = "ok"
        /\ \A t \in last.pre.transactions : t.id # LTx(i).id
        /\ \A h \in 1..(i - 1) : LTx(h).id # LTx(i).id

\* C6 (amended): every output has one row and at most one spending
\* transaction; a block with an input referencing an already-spent output
\* always fails and changes nothing; the failure is DoubleSpend, at the first
\* transaction with such an input, when no earlier check fails first.
C6_SpentOnce ==
    /\ \A o \in outputs : o.spent <=> o.spent_by_tx # NULL
    /\ \A o, x \in outputs :
         (o.tx_id = x.tx_id /\ o.output_index = x.output_index) => o = x
    /\ IngestDone =>
        /\ (\E p \in Positions : AlreadySpent(p)) => (Failed /\ Db = last.pre)
        /\ \A p \in Positions :
             ( /\ AlreadySpent(p)
               /\ \A q \in Positions : q[1] < p[1] => ~AlreadySpent(q)
               /\ NothingFailsBefore(p[1]) )
             => (last.err = "DoubleSpend" /\ last.at = p[1])

\* A later block is refused for spending an output an earlier block spent.
C6_Witness ==
    /\ IngestDone /\ last.err = "DoubleSpend" /\ last.at >= 1
    /\ \E p \in Positions :
        /\ p[1] = last.at
        /\ \E o \in last.pre.outputs :
             o.tx_id = LRef(p).txId /\ o.output_index = LRef(p).index /\ o.spent

\* The ids of the transactions of blocks above the target, before the rollback.
RemovedTxIds ==
    {t.id : t \in {x \in last.pre.transactions : x.block_height > last.target}}

\* C8: after a successful rollback to T the current height is T, every kept
\* output that a transaction above T had spent is unspent with no spending
\* reference, no block, transaction or output made above T remains, and every
\* balance is what it was right after the block at height T was ingested.
C8_RollbackRestores ==
    (RollbackDone /\ ~Failed) =>
        /\ current_height = last.target
        /\ \A o \in last.pre.outputs :
             (o.spent_by_tx \in RemovedTxIds /\ o.tx_id \notin RemovedTxIds)
             => [o EXCEPT !.spent = FALSE, !.spent_by_tx = NULL] \in outputs
        /\ \A b \in blocks : b.height <= last.target
        /\ \A t \in transactions : t.block_height <= last.target
        /\ \A o \in outputs : o.tx_id \notin RemovedTxIds
        /\ \A address \in Addresses :
             getBalance(Db, address) = getBalance(snap[last.target], address)

\* A rollback over two blocks that un-spends an output made at or below T.
C8_Witness ==
    /\ RollbackDone /\ ~Failed
    /\ last.target >= 1
    /\ last.pre.current_height >= last.target + 2
    /\ \E o \in last.pre.outputs :
         o.spent_by_tx \in RemovedTxIds /\ o.tx_id \notin RemovedTxIds

\* C10: a rollback to a height not above the current one fails with
\* RollbackWindowExceeded exactly when current - target > 2000, succeeds
\* otherwise (a depth of exactly 2000 included), and a refused rollback leaves
\* the database unchanged.
C10_Window ==
    (RollbackDone /\ last.target <= last.pre.current_height) =>
        /\ last.err = "RollbackWindowExceeded"
             <=> last.pre.current_height - last.target > RollbackWindow
        /\ last.pre.current_height - last.target <= RollbackWindow
             => (last.err = "ok" /\ current_height = last.target)
        /\ Failed => Db = last.pre

\* A rollback of depth 2001 is refused on a chain that holds outputs.
C10_Witness ==
    /\ RollbackDone
    /\ last.pre.current_height - last.target = RollbackWindow + 1
    /\ last.err = "RollbackWindowExceeded"
    /\ outputs # {}

\* A rollback of depth exactly 2000 went through.
C10_ExactDepth ==
    /\ RollbackDone /\ ~Failed
    /\ last.pre.current_height - last.target = RollbackWindow

\* ---- C11

RECURSIVE Replay(_, _, _, _)
\* processBlock on the blocks of f at heights lo..hi in ascending order,
\* starting on db: the database left, and whether every call succeeded.
Replay(db, f, lo, hi) ==
    IF lo > hi THEN [db |-> db, ok |-> TRUE]
    ELSE IF lo \notin DOMAIN f THEN [db |-> db, ok |-> FALSE]
    ELSE LET r == processBlock(db, f[lo])
         IN  IF r.err # "ok" THEN [db |-> r.db, ok |-> FALSE]
             ELSE Replay(r.db, f, lo + 1, hi)

\* C11: after a successful rollback to T, ingesting again the blocks it
\* removed, in ascending order, succeeds for each and leaves the database
\* (tables, spent flags and references, height) and every balance as they
\* were before the rollback.
C11_Inverse ==
    (RollbackDone /\ ~Failed) =>
        LET r == Replay(Db, undone, last.target + 1, last.pre.current_height)
        IN  /\ r.ok
            /\ r.db = last.pre
            /\ \A address \in Addresses :
                 getBalance(r.db, address) = getBalance(last.pre, address)

\* A rollback over two blocks, the upper spending an output of the lower.
C11_Witness ==
    /\ RollbackDone /\ ~Failed
    /\ last.pre.current_height >= last.target + 2
    /\ \E h \in DOMAIN undone :
         \E k \in 1..Len(undone[h].transactions) :
            /\ Len(undone[h].transactions[k].inputs) > 0
            /\ \E g \in DOMAIN undone :
                 g < h /\ \E i \in 1..Len(undone[g].transactions) :
                    undone[g].transactions[i].id = undone[h].transactions[k].inputs[1].txId

\* ---- C16

NoInputs == \A k \in 1..Len(last.block.transactions) : Len(LTx(k).inputs) = 0

\* Every declared output of the logged block is stored, unspent, under its
\* transaction's id and its 0-based position.
OutputsRecorded ==
    \A k \in 1..Len(last.block.transactions) :
        \A i \in 1..Len(LTx(k).outputs) :
            [tx_id |-> LTx(k).id, output_index |-> i - 1,
             address |-> LTx(k).outputs[i].address, value |-> LTx(k).outputs[i].value,
             spent |-> FALSE, spent_by_tx |-> NULL] \in outputs

FreshTxIds ==
    \A k \in 1..Len(last.block.transactions) :
        /\ \A t \in last.pre.transactions : t.id # LTx(k).id
        /\ \A h \in 1..(k - 1) : LTx(h).id # LTx(k).id

Missing(p) ==
    ~\E o \in last.pre.outputs : o.tx_id = LRef(p).txId /\ o.output_index = LRef(p).index

\* C17 as stated, for a block that passes the height and hash checks: a block
\* containing an input that references a pair not in the store fails with
\* OutputNotFound and changes nothing.
C17_AlwaysNotFound ==
    (IngestDone /\ HeaderOk /\ \E p \in Positions : Missing(p))
    => (last.err = "OutputNotFound" /\ Db = last.pre)

\* The block row inserts and transactions 1..k apply without an error.
PrefixApplies(k) ==
    /\ HeaderOk
    /\ InsertBlock(last.pre, last.block).err = "ok"
    /\ ApplyTransactions(last.pre, InsertBlock(last.pre, last.block).w,
                         [last.block EXCEPT !.transactions = SubSeq(@, 1, k)], 1).err = "ok"

\* C17 (amended): such a block always fails and changes nothing, and the
\* failure is OutputNotFound, at the first transaction with such an input,
\* when the height and hash checks pass and nothing fails before it.
C17_OutputNotFound ==
    IngestDone =>
        /\ (\E p \in Positions : Missing(p)) => (Failed /\ Db = last.pre)
        /\ \A p \in Positions :
             ( /\ Missing(p)
               /\ \A q \in Positions : q[1] < p[1] => ~Missing(q)
               /\ PrefixApplies(p[1] - 1) )
             => (last.err = "OutputNotFound" /\ last.at = p[1] /\ Db = last.pre)

\* The second transaction of a block is refused for a missing reference, its
\* first input resolving.
C17_Witness ==
    /\ IngestDone /\ last.err = "OutputNotFound" /\ last.at = 2
    /\ \E p \in Positions : p[1] = 2 /\ p[2] = 1 /\ ~Missing(p)
    /\ \E p \in Positions : p[1] = 2 /\ Missing(p)
    /\ last.pre.current_height >= 1

\* ---- C18

\* The stored transactions with their inputs: <<id, inputs>> for every
\* transaction of the blocks of the chain.
StoredTxs ==
    UNION { {<<chain[h].transactions[k].id, chain[h].transactions[k].inputs>> :
                k \in 1..Len(chain[h].transactions)} : h \in DOMAIN chain }

Spenders(o) ==
    {t \in StoredTxs : \E j \in 1..Len(t[2]) :
                           t[2][j].txId = o.tx_id /\ t[2][j].index = o.output_index}

\* C18: the transactions of the chain are the rows of table transactions; an
\* output is flagged spent iff a stored transaction has an input referencing
\* it, its spending reference is then the id of exactly that transaction, and
\* an unspent output has no spending reference.
C18_SpentIffReferenced ==
    /\ {t[1] : t \in StoredTxs} = {t.id : t \in transactions}
    /\ \A o \in outputs :
         /\ o.spent <=> Spenders(o) # {}
         /\ o.spent => {t[1] : t \in Spenders(o)} = {o.spent_by_tx}
         /\ ~o.spent => o.spent_by_tx = NULL

\* After a rollback removed the spender of an output that stays, while another
\* output stays spent.
C18_Witness ==
    /\ RollbackDone /\ ~Failed
    /\ \E o \in last.pre.outputs :
         /\ o.spent
         /\ [o EXCEPT !.spent = FALSE, !.spent_by_tx = NULL] \in outputs
    /\ \E o \in outputs : o.spent

\* ---- C19

\* C19: every balance is a non-negative integer.
C19_NonNegative ==
    \A address \in Addresses :
        getBalance(Db, address) \in Int /\ getBalance(Db, address) >= 0

\* ---- C20

RequestDone == last.op = "request"

\* The parameter is missing, does not parse to a number, or is negative.
BadParam ==
    \/ ~reply.param.present
    \/ reply.param.text = <<>>
    \/ parseInt(reply.param.text).nan
    \/ parseInt(reply.param.text).n < 0

C20_WitnessSuccess ==
    /\ RequestDone
    /\ reply.status = 200 /\ reply.success /\ reply.height = 1
    /\ last.pre.current_height >= 2

\* ---- concurrent calls

Ended(s, op) == procs[s].pc = "done" /\ procs[s].op = op

\* The stored heights are 1..current_height of db.
Linear(db) == {b.height : b \in db.blocks} = 1..db.current_height

\* ---- C12

\* C12: when a rollback and an ingestion that ran at the same time have both
\* ended, the committed database is the one left by running the two calls one
\* after the other in one of the two orders; no stored block is above the
\* current height, the stored heights have no gap, and an ingestion that
\* succeeded did so for the height after the one committed at its commit.
C12_Serialized ==
    \A i, r \in Procs :
        (Ended(i, "ingest") /\ Ended(r, "rollback") /\ Linear(base)) =>
            /\ Db \in { rollbackToHeight(processBlock(base, procs[i].block).db,
                                          procs[r].target, procs[r].rev).db,
                         processBlock(rollbackToHeight(base, procs[r].target,
                                                       procs[r].rev).db,
                                      procs[i].block).db }
            /\ Linear(Db)
            /\ procs[i].err = "ok" => procs[i].block.height = procs[i].hAtCommit + 1

\* ---- C13

SameHeight(p, q) ==
    /\ p # q /\ Ended(p, "ingest") /\ Ended(q, "ingest")
    /\ procs[p].block.height = procs[q].block.height

\* C13: no height is ever stored twice, and of two ingestions of blocks for
\* the same height that ran at the same time at most one commits; the block
\* stored at that height is then the block of the one that committed.
C13_OneCommits ==
    /\ \A b, x \in blocks : b.height = x.height => b = x
    /\ \A p, q \in Procs :
         SameHeight(p, q) =>
            /\ ~(procs[p].err = "ok" /\ procs[q].err = "ok")
            /\ procs[p].err = "ok" =>
                 {b \in blocks : b.height = procs[p].block.height}
                     = {[id |-> procs[p].block.id, height |-> procs[p].block.height]}

\* Two different blocks for height 2: one committed, the other was refused
\* by the unique height after passing the height check.
C13_Witness ==
    \E p, q \in Procs :
        /\ SameHeight(p, q)
        /\ procs[p].block # procs[q].block
        /\ procs[p].block.height = 2
        /\ procs[p].err = "ok"
        /\ procs[q].err = "StoreFault" /\ procs[q].at = 0

\* ---- C14

\* Ingestions p and q have ended, and each has an input referencing output o
\* of the database they started on, unspent there.
Race(p, q, o) ==
    /\ p # q /\ Ended(p, "ingest") /\ Ended(q, "ingest")
    /\ o \in base.outputs /\ ~o.spent
    /\ \A s \in {p, q} :
         \E k \in 1..Len(procs[s].block.transactions) :
            \E j \in 1..Len(procs[s].block.transactions[k].inputs) :
               procs[s].block.transactions[k].inputs[j] = In(o.tx_id, o.output_index)

\* The ids of the transactions of the block of s with an input referencing o.
Referrers(s, o) ==
    {procs[s].block.transactions[k].id :
        k \in {x \in 1..Len(procs[s].block.transactions) :
                 \E j \in 1..Len(procs[s].block.transactions[x].inputs) :
                    procs[s].block.transactions[x].inputs[j] = In(o.tx_id, o.output_index)}}

\* C14 as stated, for two blocks that each would be accepted alone: exactly
\* one of the two ingestions fails with DoubleSpend, the other commits, and
\* the output is spent by the transaction of the one that committed.
C14_LoserDoubleSpend ==
    \A p, q \in Procs : \A o \in base.outputs :
        ( /\ Race(p, q, o)
          /\ processBlock(base, procs[p].block).err = "ok"
          /\ processBlock(base, procs[q].block).err = "ok" )
        => \E s \in {p, q} :
              /\ procs[s].err = "ok"
              /\ \A t \in {p, q} \ {s} : procs[t].err = "DoubleSpend"
              /\ \E x \in outputs : /\ OutKey(x) = OutKey(o)
                                     /\ x.spent /\ x.spent_by_tx \in Referrers(s, o)

\* C14 (amended): the two ingestions never both commit; when one commits the
\* output is spent by its transaction and the other fails: with InvalidHeight
\* or a store fault (the duplicate height) when both blocks are for the same
\* height and the other would be accepted alone, and with DoubleSpend only
\* when it is for the next height, i.e. it read the height after the commit.
C14_NotBoth ==
    \A p, q \in Procs : \A o \in base.outputs :
        Race(p, q, o) =>
            /\ ~(procs[p].err = "ok" /\ procs[q].err = "ok")
            /\ procs[p].err = "ok" =>
                 /\ \E x \in outputs : /\ OutKey(x) = OutKey(o)
                                        /\ x.spent /\ x.spent_by_tx \in Referrers(p, o)
                 /\ procs[q].err # "ok"
                 /\ ( /\ procs[q].block.height = procs[p].block.height
                      /\ processBlock(base, procs[q].block).err = "ok" )
                      => procs[q].err \in {"InvalidHeight", "StoreFault"}
                 /\ procs[q].err = "DoubleSpend"
                      => procs[q].block.height = procs[p].block.height + 1

\* Two blocks for the same height spending the same output: one committed,
\* the other passed the height check and was stopped by the unique height.
C14_Witness ==
    \E p, q \in Procs : \E o \in base.outputs :
        /\ Race(p, q, o)
        /\ procs[p].block.height = procs[q].block.height
        /\ procs[p].err = "ok"
        /\ procs[q].err = "StoreFault"

\* The later block observed the output as spent.
C14_WitnessDoubleSpend ==
    \E p, q \in Procs : \E o \in base.outputs :
        /\ Race(p, q, o)
        /\ procs[p].err = "ok"
        /\ procs[q].err = "DoubleSpend"

\* ---- C15

\* C15: the balance a query returns is the balance of its address in a
\* database committed since the handlers started (the one they started on,
\* or one left by a COMMIT or ROLLBACK), never one of an open transaction.
C15_CommittedBalance ==
    \A s \in Procs :
        Ended(s, "balance") =>
            procs[s].result \in {getBalance(d, procs[s].address) : d \in commits}

\* A query has answered while an ingestion holds uncommitted writes under
\* which the balance is another one.
C15_Witness ==
    \E s, t \in Procs :
        /\ Ended(s, "balance")
        /\ procs[t].op = "ingest" /\ procs[t].pc \in {"insout", "setheight", "commit", "abort"}
        /\ getBalance(View(Db, procs[t]), procs[s].address) # procs[s].result
        /\ procs[s].result = getBalance(Db, procs[s].address)

\* ---- C21

\* Input positions p and q of the logged block, q after p, reference the same
\* output, which is stored unspent before the call.
SameRef(p, q) ==
    /\ Earlier(p, q) /\ LRef(p) = LRef(q)
    /\ \E o \in last.pre.outputs :
         o.tx_id = LRef(p).txId /\ o.output_index = LRef(p).index /\ ~o.spent

\* The outputs stored before the call that transaction k references.
RefRows(k) ==
    {o \in last.pre.outputs :
        \E j \in 1..Len(LTx(k).inputs) :
            o.tx_id = LTx(k).inputs[j].txId /\ o.output_index = LTx(k).inputs[j].index}

\* Nothing else is wrong with the logged block: header checks pass, the
\* transaction ids are distinct and not stored, every input references an
\* output stored unspent, and every transaction declares the value of the
\* outputs it references.
OnlyReuse ==
    /\ NothingFailsBefore(0)
    /\ \A k \in 1..Len(last.block.transactions) :
        /\ \A t \in last.pre.transactions : t.id # LTx(k).id
        /\ \A h \in 1..(k - 1) : LTx(h).id # LTx(k).id
        /\ \A j \in 1..Len(LTx(k).inputs) :
             \E o \in RefRows(k) : /\ o.tx_id = LTx(k).inputs[j].txId
                                    /\ o.output_index = LTx(k).inputs[j].index
                                    /\ ~o.spent
        /\ Len(LTx(k).inputs) > 0 => SumOfRows(RefRows(k)) = Declared(LTx(k), 1)

\* C21 as stated, for a block with nothing else wrong: when two of its inputs
\* reference the same unspent output it fails with DoubleSpend and the
\* database is as before.
C21_AlwaysDoubleSpend ==
    (IngestDone /\ OnlyReuse /\ \E p, q \in Positions : SameRef(p, q))
    => (last.err = "DoubleSpend" /\ Db = last.pre)

\* C21 (amended): a block in which two inputs reference the same unspent
\* output always fails and leaves the database, and so the output, as before;
\* the error is DoubleSpend, at the transaction of the first repeated
\* reference, when no earlier check fails first, in particular when that
\* transaction passes validation with the output counted once per reference.
C21_NoReuse ==
    IngestDone =>
        \A p, q \in Positions :
            SameRef(p, q) =>
                /\ Failed /\ Db = last.pre
                /\ \A o \in outputs :
                     (o.tx_id = LRef(p).txId /\ o.output_index = LRef(p).index) => ~o.spent
                /\ ( /\ NothingFailsBefore(q[1])
                     /\ \A r \in Positions : r[1] < q[1] => ~AlreadySpent(r) )
                     => (last.err = "DoubleSpend" /\ last.at = q[1])

\* One transaction listing the same reference twice was refused with
\* DoubleSpend.
C21_Witness ==
    /\ IngestDone /\ last.err = "DoubleSpend"
    /\ \E p, q \in Positions : SameRef(p, q) /\ p[1] = q[1] /\ last.at = q[1]

\* Two transactions of one block referencing the same output: DoubleSpend at
\* the second.
C21_WitnessSiblings ==
    /\ IngestDone /\ last.err = "DoubleSpend"
    /\ \E p, q \in Positions : SameRef(p, q) /\ p[1] = 1 /\ q[1] = 2 /\ last.at = 2

\* ---- C22

\* The logged block has two transactions of distinct ids not stored before:
\* the first has no input, the second has one input, referencing an output
\* the first declares, and declares outputs of that value.
SpendsSibling ==
    /\ NothingFailsBefore(0)
    /\ Len(last.block.transactions) = 2
    /\ LTx(1).id # LTx(2).id
    /\ \A t \in last.pre.transactions : t.id \notin {LTx(1).id, LTx(2).id}
    /\ \A o \in last.pre.outputs : o.tx_id \notin {LTx(1).id, LTx(2).id}
    /\ Len(LTx(1).inputs) = 0
    /\ Len(LTx(2).inputs) = 1
    /\ LTx(2).inputs[1].txId = LTx(1).id
    /\ LTx(2).inputs[1].index < Len(LTx(1).outputs)
    /\ LTx(1).outputs[LTx(2).inputs[1].index + 1].value = Declared(LTx(2), 1)

\* C22: a block whose second transaction spends an output its first
\* transaction records, with matching sums, is accepted, and that output ends
\* up spent by the second transaction.
C22_SiblingAccepted ==
    (IngestDone /\ SpendsSibling) =>
        /\ ~Failed
        /\ \E o \in outputs :
             /\ o.tx_id = LTx(1).id /\ o.output_index = LTx(2).inputs[1].index
             /\ o.spent /\ o.spent_by_tx = LTx(2).id

\* ---- C23

\* The transactions (request bodies) of the blocks now stored.
ChainTxs ==
    UNION { {chain[h].transactions[k] : k \in 1..Len(chain[h].transactions)} : h \in DOMAIN chain }

RECURSIVE SumDeclared(_)
\* The sum of the declared output values of a set of transactions.
SumDeclared(txs) ==
    IF txs = {} THEN 0
    ELSE LET t == CHOOSE x \in txs : TRUE
         IN  Declared(t, 1) + SumDeclared(txs \ {t})

\* C23: in every state, the stored transactions are those of the stored
\* blocks; the values of the unspent outputs sum to the output values of the
\* stored transactions without inputs; and every stored transaction with an
\* input references stored outputs whose values sum to the values of its own
\* stored outputs, which are the ones it declared.
C23_LedgerConservation ==
    /\ {t.id : t \in transactions} = {t.id : t \in ChainTxs}
    /\ SumOfRows({o \in outputs : ~o.spent})
         = SumDeclared({t \in ChainTxs : Len(t.inputs) = 0})
    /\ \A t \in ChainTxs :
         Len(t.inputs) > 0 =>
            /\ Resolves(Db, t)
            /\ RefSum(Db, t, 1) = SumOfRows({o \in outputs : o.tx_id = t.id})
            /\ RefSum(Db, t, 1) = Declared(t, 1)

\* A rollback has removed a block and what stays holds a transaction that
\* spent an output of an earlier block, and an unspent output.
C23_Witness ==
    /\ RollbackDone /\ ~Failed /\ DOMAIN undone # {}
    /\ \E t \in ChainTxs : Len(t.inputs) > 0
    /\ \E o \in outputs : o.spent
    /\ \E o \in outputs : ~o.spent

\* ---- C24

\* The logged block cut after its k-th transaction.
CutAfter(k) == [last.block EXCEPT !.transactions = SubSeq(@, 1, k)]

\* C24: a wrong height is reported as InvalidHeight whatever the id, and a
\* wrong id at the right height as InvalidHash; when the loop comes to a
\* transaction that the validator refuses, the error is the validator's
\* (OutputNotFound, ValueMismatch) at that transaction, whatever the state of
\* the outputs it references; and the error reported at transaction k is the
\* one of the block cut after k: the later transactions play no part.
C24_CheckOrder ==
    IngestDone =>
        /\ ~HeightOk(last.pre, last.block) => (last.err = "InvalidHeight" /\ last.at = 0)
        /\ (HeightOk(last.pre, last.block) /\ ~HashOk(last.block))
             => (last.err = "InvalidHash" /\ last.at = 0)
        /\ \A k \in 1..Len(last.block.transactions) :
             (Reached(k) /\ validateTransaction(last.pre, LTx(k)) # "ok")
             => ( /\ last.at = k
                  /\ last.err = validateTransaction(last.pre, LTx(k))
                  /\ last.err \in {"OutputNotFound", "ValueMismatch"} )
        /\ \A k \in 1..Len(last.block.transactions) :
             last.at = k =>
                LET r == ApplyTransactions(last.pre, InsertBlock(last.pre, last.block).w,
                                           CutAfter(k), 1)
                IN  r.err = last.err /\ r.at = k

\* A transaction failed with ValueMismatch although the output its input
\* references was already spent.
C24_Witness ==
    /\ IngestDone /\ last.err = "ValueMismatch" /\ last.at >= 1
    /\ \E j \in 1..Len(LTx(last.at).inputs) :
         \E o \in last.pre.outputs :
            /\ o.tx_id = LTx(last.at).inputs[j].txId
            /\ o.output_index = LTx(last.at).inputs[j].index
            /\ o.spent

\* A block with a wrong height and a wrong id failed with InvalidHeight.
C24_WitnessHeader ==
    /\ IngestDone /\ last.err = "InvalidHeight"
    /\ ~HeightOk(last.pre, last.block) /\ ~HashOk(last.block)

\* A block failed at its first transaction and had a second one.
C24_WitnessCut ==
    /\ IngestDone /\ last.at = 1 /\ Len(last.block.transactions) = 2

\* ---- C25

InProgress(s) == procs[s].pc \notin {"idle", "done"}

\* C25: no call waits forever: whenever calls are in progress, one of them
\* can take its next step.
C25_NoCallWaitsForever ==
    (\E s \in Procs : InProgress(s)) => \E s \in Procs : InProgress(s) /\ ENABLED Runs(s)

\* ---- C26

\* The height of the block that stored transaction id before the call (0: no
\* such transaction).
HeightOfTx(id) ==
    IF \E t \in last.pre.transactions : t.id = id
    THEN (CHOOSE t \in last.pre.transactions : t.id = id).block_height
    ELSE 0

\* C26: after a successful rollback to T, every block and transaction row of
\* height <= T is as before, every output created at a height <= T has its
\* row with the same address and value, and its spent flag and spending
\* transaction are as before unless it was spent by a transaction of a block
\* above T, in which case it is unspent.
C26_RollbackFrame ==
    (RollbackDone /\ ~Failed) =>
        /\ \A b \in last.pre.blocks : b.height <= last.target => b \in blocks
        /\ \A t \in last.pre.transactions : t.block_height <= last.target => t \in transactions
        /\ \A o \in last.pre.outputs :
             HeightOfTx(o.tx_id) <= last.target =>
                IF o.spent /\ HeightOfTx(o.spent_by_tx) > last.target
                THEN [o EXCEPT !.spent = FALSE, !.spent_by_tx = NULL] \in outputs
                ELSE o \in outputs
        /\ \A o \in outputs : \E x \in last.pre.outputs : OutKey(x) = OutKey(o)

\* A rollback to T >= 2 removed a block; an output created and spent at
\* heights <= T is still spent, and one spent above T is unspent again.
C26_Witness ==
    /\ RollbackDone /\ ~Failed /\ DOMAIN undone # {} /\ last.target >= 2
    /\ \E o \in outputs :
         /\ o.spent /\ o \in last.pre.outputs
         /\ HeightOfTx(o.tx_id) < HeightOfTx(o.spent_by_tx)
    /\ \E o \in last.pre.outputs :
         /\ o.spent /\ HeightOfTx(o.tx_id) <= last.target
         /\ HeightOfTx(o.spent_by_tx) > last.target
         /\ [o EXCEPT !.spent = FALSE, !.spent_by_tx = NULL] \in outputs

\* ---- C27

\* height.toString() + txIds.join('') for the logged block, its ids in the
\* order `ids`.
Concat(ids) == ToString(last.block.height) \o Join(ids)

\* C27: a block that is accepted carries the digest of its height and its
\* transaction ids in block order; a block of the right height whose id is
\* the digest over its transaction ids in the other order fails with
\* InvalidHash, and changes nothing, when that order gives another
\* concatenation, and passes the id check when it gives the same one.
C27_OrderSensitive ==
    (IngestDone /\ HeightOk(last.pre, last.block)) =>
        /\ ~Failed => last.block.id = Sha256(Concat(TxIdsOf(last.block)))
        /\ last.block.id = calculateBlockHash(last.block.height, Reverse(TxIdsOf(last.block)))
             => IF Concat(Reverse(TxIdsOf(last.block))) # Concat(TxIdsOf(last.block))
                THEN last.err = "InvalidHash" /\ Db = last.pre
                ELSE last.err # "InvalidHash"

\* A block of two transactions whose id is the digest over the ids in the
\* other order was refused with InvalidHash, although each of its
\* transactions would pass.
C27_Witness ==
    /\ IngestDone /\ HeightOk(last.pre, last.block) /\ last.err = "InvalidHash"
    /\ Len(last.block.transactions) = 2
    /\ last.block.id = calculateBlockHash(last.block.height, Reverse(TxIdsOf(last.block)))
    /\ ~processBlock(last.pre, [last.block EXCEPT
                                   !.id = calculateBlockHash(last.block.height,
                                                             TxIdsOf(last.block))]).err
            \in {"InvalidHeight", "InvalidHash"}

\* ---- C28

\* C28: a rollback to the current height succeeds and leaves the database as
\* it was; and after any successful rollback to T, one more rollback to T
\* succeeds and leaves the database as the first left it.
C28_Idempotent ==
    RollbackDone =>
        /\ last.target = last.pre.current_height => (~Failed /\ Db = last.pre)
        /\ ~Failed =>
             \A rev \in BOOLEAN :
                /\ rollbackToHeight(Db, last.target, rev).err = "ok"
                /\ rollbackToHeight(Db, last.target, rev).db = Db

\* A rollback to the current height of a ledger holding blocks, transactions
\* and a spent output has succeeded.
C28_Witness ==
    /\ RollbackDone /\ ~Failed
    /\ last.target = last.pre.current_height /\ last.target >= 2
    /\ \E o \in outputs : o.spent

\* A rollback that removed blocks has succeeded.
C28_WitnessRemoved ==
    /\ RollbackDone /\ ~Failed /\ DOMAIN undone # {} /\ last.target >= 1
    /\ Db # last.pre

====
